---- MODULE Spec2Model ----
(***************************************************************************)
(* The value-tracking core of the slider: Slider.tsx (value formatter,     *)
(* commit controller, click-to-set) and the useDrag hook (drag tracker).   *)
(*                                                                         *)
(* Numbers.  Committed values are JavaScript numbers; the model keeps the  *)
(* integer ones plus NaN.  A raw input of formatValue is an extended       *)
(* rational <<num, den>> with den >= 0: den = 0 stands for +Infinity       *)
(* (num > 0), -Infinity (num < 0) and NaN (num = 0), which is what the     *)
(* divisions by a container extent produce.  min, max, step and the marks  *)
(* are integers, so every value formatValue returns is an integer or NaN.  *)
(*                                                                         *)
(* Rendering.  Every handler runs to completion and the component has      *)
(* re-rendered (and its effects have run) before the next event, so an     *)
(* action is a whole handler followed by the render; rawValuesRef.current  *)
(* is then rawValues of the latest render.                                 *)
(***************************************************************************)
EXTENDS Integers, Sequences, FiniteSets, TLC

VARIABLES
    cfg,              \* the props of the component, fixed during a behaviour
    value,            \* the `value` prop after postState (controlled hosts)
    innerValue,       \* the inner state of useMergedState after postState
    dragging,         \* useDrag: dragging
    draggingValue,    \* useDrag: draggingValue, <<>> for null
    cacheValues,      \* useDrag: cacheValues, the live working copy
    listeners,        \* the mousemove/mouseup pairs registered on document
    onChangeCalls,    \* the onChange calls of the last handler, in order
    onAfterChangeCalls, \* the onAfterChange calls of the last handler
    triggerCalls,     \* its triggerChange calls: the sorted argument, and whether onChange fired
    prevTrigger,      \* the triggerChange call before them, if the host has not set a value since
    lastOp,           \* the last handler, its inputs and the state it started from
    events,           \* how many events the component has handled
    fmtIn, fmtOut,    \* the last formatValue call of the last handler: input and result
    fmtAgain          \* that result formatted again

vars == <<cfg, value, innerValue, dragging, draggingValue, cacheValues, listeners,
          onChangeCalls, onAfterChangeCalls, triggerCalls, prevTrigger, lastOp,
          events, fmtIn, fmtOut, fmtAgain>>

----------------------------------------------------------------------------
(* Numbers *)

\* IEEE NaN, a reserved integer far outside every range the model uses.
NaN == 0 - 1000000

\* step = null
NullStep == 0 - 999

DefaultMin == 0
DefaultMax == 100
DefaultStep == 1

Abs(x) == IF x < 0 THEN 0 - x ELSE x

RawOf(v) == IF v = NaN THEN <<0, 0>> ELSE <<v, 1>>
RawIsNaN(r) == r[2] = 0 /\ r[1] = 0
RawIsFinite(r) == r[2] > 0

\* a <= b on extended rationals; false when either is NaN, as in JavaScript
RawLeq(a, b) ==
    /\ ~RawIsNaN(a)
    /\ ~RawIsNaN(b)
    /\ IF a[2] = 0 /\ b[2] = 0 THEN a[1] < 0 \/ b[1] > 0
       ELSE IF a[2] = 0 THEN a[1] < 0
       ELSE IF b[2] = 0 THEN b[1] > 0
       ELSE a[1] * b[2] <= b[1] * a[2]

\* Math.min(a, b) and Math.max(a, b): NaN if either argument is NaN
MathMin(a, b) ==
    IF RawIsNaN(a) \/ RawIsNaN(b) THEN <<0, 0>> ELSE IF RawLeq(a, b) THEN a ELSE b

MathMax(a, b) ==
    IF RawIsNaN(a) \/ RawIsNaN(b) THEN <<0, 0>> ELSE IF RawLeq(a, b) THEN b ELSE a

\* a mutant of MathRound: Math.floor
MathRound_Floor(n, d) == n \div d

\* Math.round(n / d) for d > 0: the nearest integer, a half rounds up
MathRound(n, d) == (2 * n + d) \div (2 * d)

\* a mutant of SortAsc: the array is left as it is
SortAsc_Unsorted(s) == s

\* Array.prototype.sort((a, b) => a - b) on one or two numbers.  A comparator
\* result of NaN counts as 0 and the sort is stable, so a pair holding NaN keeps
\* its order.
SortAsc(s) ==
    IF Len(s) = 2 /\ s[1] # NaN /\ s[2] # NaN /\ s[1] > s[2] THEN <<s[2], s[1]>> ELSE s

\* shallowEqual on two arrays of numbers: same length, elements === (NaN !== NaN)
ShallowEqual(a, b) ==
    /\ Len(a) = Len(b)
    /\ \A i \in 1..Len(a) : a[i] # NaN /\ b[i] # NaN /\ a[i] = b[i]

----------------------------------------------------------------------------
(* Slider.tsx: step, marks, values *)

\* mergedStep; null <= 0 holds in JavaScript, so a null step becomes 1 as well
mergedStep(step) == IF step = NullStep \/ step <= 0 THEN 1 ELSE step

SetMin(S) == CHOOSE x \in S : \A y \in S : x <= y

RECURSIVE SortedSeq(_)
SortedSeq(S) == IF S = {} THEN <<>> ELSE <<SetMin(S)>> \o SortedSeq(S \ {SetMin(S)})

\* markList: the marks' values, ascending
markList(c) == SortedSeq(c.marks)

mergedValue(c, val, inner) == IF c.host = "uncontrolled" THEN inner ELSE val

\* rawValues: the first two elements, a missing one is min; sorted in range mode
rawValuesOf(c, mv) ==
    LET val0 == IF Len(mv) >= 1 THEN mv[1] ELSE c.min
        val1 == IF Len(mv) >= 2 THEN mv[2] ELSE c.min
    IN  IF c.range THEN SortAsc(<<val0, val1>>) ELSE <<val0>>

\* |a - b| for a raw a and a number b
Dist(a, b) ==
    IF RawIsNaN(a) \/ b = NaN THEN <<0, 0>>
    ELSE IF a[2] = 0 THEN <<1, 0>>
    ELSE <<Abs(a[1] - b * a[2]), a[2]>>

\* a mutant of StepCandidate: the steps are counted from 0, not from min
StepCandidate_FromZero(c, clamped) ==
    IF RawIsNaN(clamped) THEN NaN
    ELSE MathRound(clamped[1] - c.min * clamped[2], clamped[2] * mergedStep(c.step))
         * mergedStep(c.step)

\* min + Math.round((formatNextValue - min) / mergedStep) * mergedStep
StepCandidate(c, clamped) ==
    IF RawIsNaN(clamped) THEN NaN
    ELSE c.min + MathRound(clamped[1] - c.min * clamped[2], clamped[2] * mergedStep(c.step))
                 * mergedStep(c.step)

\* formatNextValue = Math.max(min, Math.min(max, val))
ClampRaw(c, raw) == MathMax(<<c.min, 1>>, MathMin(<<c.max, 1>>, raw))

alignValuesOf(c, clamped) ==
    IF mergedStep(c.step) # NullStep
    THEN Append(markList(c), StepCandidate(c, clamped))
    ELSE markList(c)

\* a mutant of CloserOrEqual: dist < closeDist
CloserOrEqual_Strict(dist, closeDist) == RawLeq(dist, closeDist) /\ ~RawLeq(closeDist, dist)

\* the comparison of the scan: dist <= closeDist
CloserOrEqual(dist, closeDist) == RawLeq(dist, closeDist)

\* alignValues.forEach: the running closest value and its distance
RECURSIVE AlignScan(_, _, _, _, _)
AlignScan(aligns, i, clamped, closeValue, closeDist) ==
    IF i > Len(aligns) THEN closeValue
    ELSE LET dist == Dist(clamped, aligns[i])
         IN  IF CloserOrEqual(dist, closeDist)
             THEN AlignScan(aligns, i + 1, clamped, aligns[i], dist)
             ELSE AlignScan(aligns, i + 1, clamped, closeValue, closeDist)

formatValue(c, raw) ==
    LET clamped == ClampRaw(c, raw)
        aligns == alignValuesOf(c, clamped)
    IN  AlignScan(aligns, 1, clamped, aligns[1], <<c.max - c.min, 1>>)

----------------------------------------------------------------------------
(* Slider.tsx: the commit controller.  A handler works on k, the part of    *)
(* the state it can change: value, innerValue, draggingValue, cacheValues,  *)
(* onChangeCalls, triggerCalls, fmtIn, fmtOut.                               *)

rawValuesIn(c, k) == rawValuesOf(c, mergedValue(c, k.value, k.innerValue))

\* what onChange and onAfterChange receive: the array in range mode, else its first element
triggerValue(c, vals) ==
    IF c.range THEN [kind |-> "array", val |-> vals]
    ELSE [kind |-> "number", val |-> <<vals[1]>>]

\* a mutant of triggerChange: setValue is not called
triggerChange_NoSetValue(c, k, nextValues) ==
    LET cloneNextValues == SortAsc(nextValues)
        fire == ~ShallowEqual(cloneNextValues, rawValuesIn(c, k))
        payload == triggerValue(c, cloneNextValues)
    IN  [k EXCEPT !.onChangeCalls = IF fire THEN Append(@, payload) ELSE @,
                  !.value = IF fire /\ c.host = "controlled_echo" THEN payload.val ELSE @,
                  !.triggerCalls = Append(@, [arg |-> cloneNextValues, fired |-> fire])]

\* A host that adopts what onChange reports ("controlled_echo") passes it back
\* as its value prop; "controlled_fixed" keeps the value it has.
triggerChange(c, k, nextValues) ==
    LET cloneNextValues == SortAsc(nextValues)
        fire == ~ShallowEqual(cloneNextValues, rawValuesIn(c, k))
        payload == triggerValue(c, cloneNextValues)
    IN  [k EXCEPT !.onChangeCalls = IF fire THEN Append(@, payload) ELSE @,
                  !.value = IF fire /\ c.host = "controlled_echo" THEN payload.val ELSE @,
                  !.innerValue = cloneNextValues,
                  !.triggerCalls = Append(@, [arg |-> cloneNextValues, fired |-> fire])]

\* rawValues.forEach of changeToCloseValue: the running index (from 1) and distance
RECURSIVE ValueScan(_, _, _, _, _)
ValueScan(vals, i, newValue, valueIndex, valueDist) ==
    IF i > Len(vals) THEN valueIndex
    ELSE LET dist == Dist(RawOf(newValue), vals[i])
         IN  IF RawLeq(dist, valueDist)
             THEN ValueScan(vals, i + 1, newValue, i, dist)
             ELSE ValueScan(vals, i + 1, newValue, valueIndex, valueDist)

\* a mutant of closeIndex: the first of the nearest handles, not the last
closeIndex_First(c, vals, newValue) ==
    LET near == { i \in 1..Len(vals) :
                    /\ RawLeq(Dist(RawOf(newValue), vals[i]), <<c.max - c.min, 1>>)
                    /\ \A j \in 1..Len(vals) :
                          RawLeq(Dist(RawOf(newValue), vals[j]), <<c.max - c.min, 1>>)
                          => RawLeq(Dist(RawOf(newValue), vals[i]), Dist(RawOf(newValue), vals[j])) }
    IN  IF near = {} THEN 1 ELSE SetMin(near)

closeIndex(c, vals, newValue) == ValueScan(vals, 1, newValue, 1, <<c.max - c.min, 1>>)

\* a mutant of changeToCloseValue: disabled is not looked at
changeToCloseValue_Always(c, k, newValue) ==
    LET rawValues == rawValuesIn(c, k)
        valueIndex == closeIndex(c, rawValues, newValue)
    IN  triggerChange(c, k, [rawValues EXCEPT ![valueIndex] = newValue])

changeToCloseValue(c, k, newValue) ==
    IF ~c.disabled
    THEN LET rawValues == rawValuesIn(c, k)
             valueIndex == closeIndex(c, rawValues, newValue)
         IN  triggerChange(c, k, [rawValues EXCEPT ![valueIndex] = newValue])
    ELSE k

\* percent of onSliderMouseDown, as <<numerator, denominator>>
clickPercent(c, e, rect) ==
    IF c.direction = "vertical" THEN <<(rect.top + rect.height) - e.y, rect.height>>
    ELSE IF c.direction = "rtl" THEN <<(rect.left + rect.width) - e.x, rect.width>>
    ELSE <<e.x - rect.left, rect.width>>

\* min + percent * (max - min); a zero denominator keeps the sign of the numerator
ScaleFrom(c, origin, percent) ==
    IF origin = NaN THEN <<0, 0>>
    ELSE <<origin * percent[2] + percent[1] * (c.max - c.min), percent[2]>>

onSliderMouseDown(c, k, e, rect) ==
    LET nextValue == ScaleFrom(c, c.min, clickPercent(c, e, rect))
        formatted == formatValue(c, nextValue)
    IN  changeToCloseValue(c, [k EXCEPT !.fmtIn = nextValue, !.fmtOut = formatted], formatted)

\* finishChange has no caller: Slider passes it to useDrag as an eighth
\* argument, and useDrag takes seven.
finishChange(c, k) == triggerValue(c, rawValuesIn(c, k))

----------------------------------------------------------------------------
(* useDrag *)

\* l is the closure of one onStartMove call: valueIndex, startX, startY and the
\* cacheValues of the render whose onStartMove it was.
updateCacheValue(c, k, l, offsetPercent) ==
    LET originValue == l.cacheValues[l.valueIndex]
        nextValue == ScaleFrom(c, originValue, offsetPercent)
        formattedValue == formatValue(c, nextValue)
        cloneCacheValues == [l.cacheValues EXCEPT ![l.valueIndex] = formattedValue]
    IN  triggerChange(c,
                      [k EXCEPT !.draggingValue = <<formattedValue>>,
                                !.cacheValues = cloneCacheValues,
                                !.fmtIn = nextValue,
                                !.fmtOut = formattedValue],
                      cloneCacheValues)

\* a mutant of dragPercent: rtl is not negated
dragPercent_NoSign(c, l, event, rect) == <<event.x - l.startX, rect.width>>

\* a mutant of dragPercent: every direction is negated
dragPercent_Negated(c, l, event, rect) == <<0 - (event.x - l.startX), rect.width>>

\* offSetPercent of onMouseMove
dragPercent(c, l, event, rect) ==
    LET offsetX == event.x - l.startX
        offsetY == event.y - l.startY
    IN  IF c.direction = "rtl" THEN <<0 - offsetX, rect.width>> ELSE <<offsetX, rect.width>>

onMouseMove(c, k, l, event, rect) == updateCacheValue(c, k, l, dragPercent(c, l, event, rect))

\* a mousemove on document runs every registered onMouseMove, in order; the
\* listeners are native ones, so the state updates of one are rendered before
\* the next runs
RECURSIVE MoveAll(_, _, _, _, _, _)
MoveAll(c, k, ls, i, event, rect) ==
    IF i > Len(ls) THEN k
    ELSE MoveAll(c, onMouseMove(c, k, ls[i], event, rect), ls, i + 1, event, rect)

\* a mutant of SyncCache: cacheValues follows rawValues during a drag too
SyncCache_Always(c, k, drag) == rawValuesIn(c, k)

\* the effect of useDrag: while not dragging, cacheValues follows rawValues
SyncCache(c, k, drag) == IF ~drag THEN rawValuesIn(c, k) ELSE k.cacheValues

----------------------------------------------------------------------------
(* The bounds of the model and the inputs it draws *)

\* the most mousemove/mouseup pairs registered on document at a time
MaxListeners == 2

\* the most events (host updates and mouse events) of a behaviour
MaxEvents == 4

\* pointer coordinates of mouse events (pageX = clientX, pageY = clientY: no
\* scroll): from the first to the second the pointer moves +15 along x only, to
\* the third along both axes
Pointers == { [x |-> 0, y |-> 0], [x |-> 15, y |-> 0], [x |-> 50, y |-> 20] }

\* what getBoundingClientRect returns: a laid-out container and a collapsed one
Rects == { [left |-> 0, top |-> 0, width |-> 100, height |-> 50],
           [left |-> 0, top |-> 0, width |-> 0, height |-> 0] }

Directions == {"ltr", "rtl", "vertical"}
Hosts == {"uncontrolled", "controlled_echo", "controlled_fixed"}

Props(min, max, step, marks, range, direction, disabled, host) ==
    [min |-> min, max |-> max, step |-> step, marks |-> marks, range |-> range,
     direction |-> direction, disabled |-> disabled, host |-> host]

\* The sliders of the model, each with the value (value or defaultValue) it is
\* constructed with.
Sliders ==
    \* min=0, max=100, step=1, range, [10, 50]
    { [props |-> Props(DefaultMin, DefaultMax, DefaultStep, {}, TRUE, "ltr", FALSE, h),
       initial |-> <<10, 50>>] : h \in Hosts }
    \cup
    { [props |-> Props(DefaultMin, DefaultMax, DefaultStep, {}, TRUE, d, FALSE, "uncontrolled"),
       initial |-> <<10, 50>>] : d \in {"rtl", "vertical"} }
    \cup
    \* marks and a step of 10, [20, 80]
    { [props |-> Props(DefaultMin, DefaultMax, 10, {0, 100}, TRUE, "ltr", dis, h),
       initial |-> <<20, 80>>] : dis \in BOOLEAN, h \in {"uncontrolled"} }
    \cup
    \* a single handle, a step that does not divide max - min, no value given
    { [props |-> Props(0, 10, 4, {}, FALSE, d, FALSE, "uncontrolled"),
       initial |-> <<>>] : d \in {"ltr"} }
    \cup
    \* a single handle, step = null, marks only
    { [props |-> Props(DefaultMin, DefaultMax, NullStep, {0, 30, 100}, FALSE, "ltr", FALSE, h),
       initial |-> <<30>>] : h \in {"uncontrolled"} }

\* the values a controlled host may pass at any time (after postState)
HostValues == { <<80, 20>>, <<30>>, <<150, 40>> }

----------------------------------------------------------------------------
(* State *)

NoOp(kind) == [kind |-> kind, x |-> 0, y |-> 0, width |-> 0, height |-> 0,
               index |-> 0, target |-> <<>>, before |-> <<>>]

InitWith(slider) ==
    /\ cfg = slider.props
    /\ value = (IF slider.props.host = "uncontrolled" THEN <<>> ELSE slider.initial)
    /\ innerValue = slider.initial
    /\ dragging = FALSE
    /\ draggingValue = <<>>
    /\ cacheValues = rawValuesOf(slider.props, slider.initial)
    /\ listeners = <<>>
    /\ onChangeCalls = <<>>
    /\ onAfterChangeCalls = <<>>
    /\ triggerCalls = <<>>
    /\ prevTrigger = <<>>
    /\ lastOp = NoOp("init")
    /\ events = 0
    /\ fmtIn = <<0, 0>>
    /\ fmtOut = NaN
    /\ fmtAgain = NaN

Init == \E slider \in Sliders : InitWith(slider)

rawValues == rawValuesOf(cfg, mergedValue(cfg, value, innerValue))

\* what a handler starts from
Before ==
    [value |-> value, innerValue |-> innerValue, draggingValue |-> draggingValue,
     cacheValues |-> cacheValues, onChangeCalls |-> <<>>, triggerCalls |-> <<>>,
     fmtIn |-> <<0, 0>>, fmtOut |-> NaN]

LastOf(s) == IF s = <<>> THEN <<>> ELSE <<s[Len(s)]>>

\* the state after a handler that left k, and the render and effects after it
Rendered(k, drag, ls, op) ==
    /\ events < MaxEvents
    /\ events' = events + 1
    /\ value' = k.value
    /\ innerValue' = k.innerValue
    /\ draggingValue' = k.draggingValue
    /\ cacheValues' = SyncCache(cfg, k, drag)
    /\ dragging' = drag
    /\ listeners' = ls
    /\ onChangeCalls' = k.onChangeCalls
    /\ onAfterChangeCalls' = <<>>
    /\ triggerCalls' = k.triggerCalls
    /\ prevTrigger' = LastOf(prevTrigger \o triggerCalls)
    /\ lastOp' = op
    /\ fmtIn' = k.fmtIn
    /\ fmtOut' = k.fmtOut
    /\ UNCHANGED <<cfg, fmtAgain>>

----------------------------------------------------------------------------
(* Operations *)

\* the host passes a new value prop
HostSetValue(v) ==
    /\ cfg.host # "uncontrolled"
    /\ events < MaxEvents
    /\ events' = events + 1
    /\ value' = v
    /\ cacheValues' = SyncCache(cfg, [Before EXCEPT !.value = v], dragging)
    /\ onChangeCalls' = <<>>
    /\ onAfterChangeCalls' = <<>>
    /\ triggerCalls' = <<>>
    /\ prevTrigger' = <<>>
    /\ lastOp' = [NoOp("host") EXCEPT !.before = rawValues]
    /\ fmtIn' = <<0, 0>>
    /\ fmtOut' = NaN
    /\ UNCHANGED <<cfg, innerValue, dragging, draggingValue, listeners, fmtAgain>>

\* mousedown on the slider
SliderMouseDown(e, rect) ==
    Rendered(onSliderMouseDown(cfg, Before, e, rect), dragging, listeners,
             [NoOp("click") EXCEPT !.x = e.x, !.y = e.y, !.width = rect.width,
                                   !.height = rect.height, !.before = rawValues,
                                   !.target = <<formatValue(cfg, ScaleFrom(cfg, cfg.min,
                                                   clickPercent(cfg, e, rect)))>>])

\* click on the mark of value m
MarkClick(m) ==
    Rendered(changeToCloseValue(cfg, Before, m), dragging, listeners,
             [NoOp("mark") EXCEPT !.before = rawValues, !.target = <<m>>])

\* Handles, which renders the handles and is given onStartMove, is not among
\* the sources at hand. Following the specification ("click-to-set and
\* drag-start are no-ops when disabled; the event is simply absorbed"), the
\* mousedown on a handle reaches onStartMove unless the slider is disabled.
HandleStartsMove(c) == ~c.disabled

\* mousedown on handle valueIndex: onStartMove
StartMove(e, valueIndex) ==
    /\ Len(listeners) < MaxListeners
    /\ Rendered(Before, dragging \/ HandleStartsMove(cfg),
                IF HandleStartsMove(cfg)
                THEN Append(listeners, [valueIndex |-> valueIndex, startX |-> e.x,
                                        startY |-> e.y, cacheValues |-> cacheValues])
                ELSE listeners,
                [NoOp("down") EXCEPT !.x = e.x, !.y = e.y, !.index = valueIndex,
                                     !.before = rawValues])

\* mousemove on document
MouseMove(event, rect) ==
    /\ listeners # <<>>
    /\ Rendered(MoveAll(cfg, Before, listeners, 1, event, rect), dragging, listeners,
                [NoOp("move") EXCEPT !.x = event.x, !.y = event.y, !.width = rect.width,
                                     !.height = rect.height, !.before = rawValues])

\* mouseup on document: every onMouseUp removes its pair and calls setDragging(false)
MouseUp ==
    /\ listeners # <<>>
    /\ Rendered(Before, FALSE, <<>>, [NoOp("up") EXCEPT !.before = rawValues])

Next ==
    \/ \E v \in HostValues : HostSetValue(v)
    \/ \E e \in Pointers, rect \in Rects : SliderMouseDown(e, rect)
    \/ \E m \in cfg.marks : MarkClick(m)
    \/ \E e \in Pointers, i \in 1..Len(cacheValues) : StartMove(e, i)
    \/ \E event \in Pointers, rect \in Rects : MouseMove(event, rect)
    \/ MouseUp

Spec == Init /\ [][Next]_vars

----------------------------------------------------------------------------
(* The formatter on its own: formatValue applied to the inputs of a bounded  *)
(* set, under every constraint set of a bounded family.                      *)

\* the largest max - min of the family
MaxSpan == 6
\* its largest step
MaxStepSize == 8
\* the largest denominator of an input
MaxDen == 3
\* how far outside [min, max] the far inputs lie
FarOut == 1000

FormatProps(min, max, step, marks) == Props(min, max, step, marks, FALSE, "ltr", FALSE, "uncontrolled")

FormatConfigs ==
    { FormatProps(min, min + span, step, marks) :
        min \in {0 - 2, 0}, span \in 1..MaxSpan,
        step \in {NullStep, 0} \cup 1..MaxStepSize,
        marks \in SUBSET {0, 1, 3} }
    \cup { FormatProps(min, min + span, step, {min, min + span}) :
             min \in {0 - 2, 0}, span \in 1..MaxSpan, step \in 1..MaxStepSize }
    \cup { FormatProps(DefaultMin, DefaultMax, 10, marks) : marks \in {{}, {0, 100}} }

FormatInputs(c) ==
    { <<n, d>> : n \in ((c.min - 2) * MaxDen)..((c.max + 2) * MaxDen), d \in 1..MaxDen }
    \cup { <<c.max + FarOut, 1>>, <<c.min - FarOut, 1>>, <<1, 0>>, <<0 - 1, 0>>, <<0, 0>> }

InitFormat ==
    \E c \in FormatConfigs :
        /\ \A m \in c.marks : c.min <= m /\ m <= c.max
        /\ InitWith([props |-> c, initial |-> <<>>])

\* format(x), and format of the result; a behaviour formats one input
Format(x) ==
    /\ lastOp.kind = "init"
    /\ fmtIn' = x
    /\ fmtOut' = formatValue(cfg, x)
    /\ fmtAgain' = formatValue(cfg, RawOf(formatValue(cfg, x)))
    /\ lastOp' = NoOp("format")
    /\ UNCHANGED <<cfg, value, innerValue, dragging, draggingValue, cacheValues, listeners,
                   onChangeCalls, onAfterChangeCalls, triggerCalls, prevTrigger, events>>

NextFormat == \E x \in FormatInputs(cfg) : Format(x)

SpecFormat == InitFormat /\ [][NextFormat]_vars

Formatted == lastOp.kind = "format"

\* the clamped input of the last formatValue call, and the distance from it
Clamped == ClampRaw(cfg, fmtIn)
DistOf(v) == Dist(Clamped, v)

----------------------------------------------------------------------------
(* Claims about the formatter, under SpecFormat *)

\* C4: range law: for every finite input, format(x) lies in [min, max].
C4_RangeLaw ==
    (Formatted /\ RawIsFinite(fmtIn)) => (cfg.min <= fmtOut /\ fmtOut <= cfg.max)

StepValue == StepCandidate(cfg, Clamped)

\* a mark and the step-derived candidate, two different values, are nearest to
\* the clamped input at exactly the same distance
MarkStepTie(m) ==
    /\ m \in cfg.marks
    /\ m # StepValue
    /\ DistOf(m) = DistOf(StepValue)
    /\ \A n \in cfg.marks : RawLeq(DistOf(m), DistOf(n))

\* C5 as stated: on such a tie format returns the mark; with min=0, max=100,
\* marks={0,100}, step=10, format(5) = 0.
C5_MarkWinsTie ==
    (Formatted /\ RawIsFinite(fmtIn)) =>
        /\ \A m \in cfg.marks : MarkStepTie(m) => fmtOut = m
        /\ (cfg = FormatProps(0, 100, 10, {0, 100}) /\ fmtIn = <<5, 1>>) => fmtOut = 0

\* C5 amended: on such a tie format returns the step-derived candidate, which is
\* scanned last; with min=0, max=100, marks={0,100}, step=10, format(5) = 10.
C5_StepWinsTie ==
    (Formatted /\ RawIsFinite(fmtIn)) =>
        /\ \A m \in cfg.marks : MarkStepTie(m) => fmtOut = StepValue
        /\ (cfg = FormatProps(0, 100, 10, {0, 100}) /\ fmtIn = <<5, 1>>) => fmtOut = 10

C5_Witness ==
    /\ Formatted
    /\ cfg = FormatProps(0, 100, 10, {0, 100})
    /\ fmtIn = <<5, 1>>
    /\ MarkStepTie(0)
    /\ fmtOut = 10

InRange(r) == RawLeq(<<cfg.min, 1>>, r) /\ RawLeq(r, <<cfg.max, 1>>)

\* C9: idempotence: for every x in [min, max], format(format(x)) = format(x).
C9_Idempotent ==
    (Formatted /\ InRange(fmtIn)) => fmtAgain = fmtOut

\* an input strictly between two steps, in a slider with marks, whose format is
\* not the input itself
C9_Witness ==
    /\ Formatted
    /\ InRange(fmtIn)
    /\ cfg.marks # {}
    /\ RawOf(fmtOut) # fmtIn
    /\ fmtIn[2] = 2 /\ fmtIn[1] % 2 = 1
    /\ fmtAgain = fmtOut

\* the candidate set: all mark values plus min + round((clamped - min)/step) * step
Candidates == cfg.marks \cup {StepValue}

\* C10: snap correctness: format(x) is a candidate that minimizes
\* |clamped - candidate|; with step=10, min=0, max=100 and no marks,
\* format(23) = 20 and format(26) = 30.
C10_SnapCorrect ==
    (Formatted /\ RawIsFinite(fmtIn)) =>
        /\ fmtOut \in Candidates
        /\ \A a \in Candidates : RawLeq(DistOf(fmtOut), DistOf(a))
        /\ (cfg = FormatProps(0, 100, 10, {}) /\ fmtIn = <<23, 1>>) => fmtOut = 20
        /\ (cfg = FormatProps(0, 100, 10, {}) /\ fmtIn = <<26, 1>>) => fmtOut = 30

C10_Witness ==
    /\ Formatted
    /\ cfg = FormatProps(0, 100, 10, {})
    /\ fmtIn = <<26, 1>>
    /\ fmtOut = 30

----------------------------------------------------------------------------
(* Claims about the component, under Spec *)

Finite(v) == v # NaN

\* C1: every pointer-up that ends a drag and every click-to-set causes exactly
\* one onAfterChange call, carrying the current sorted value set (the sequence
\* in range mode, its single element otherwise).
C1_AfterChangeOnce ==
    (lastOp.kind = "up" \/ (lastOp.kind \in {"click", "mark"} /\ ~cfg.disabled))
        => onAfterChangeCalls = <<triggerValue(cfg, rawValues)>>

\* the triggerChange calls of the last handler, after the call before them
Calls == prevTrigger \o triggerCalls

\* two calls in a row were given the same sorted sequence, and the second one
\* invoked onChange
FiredAgain ==
    \E i \in 2..Len(Calls) : ShallowEqual(Calls[i].arg, Calls[i - 1].arg) /\ Calls[i].fired

\* C2 as stated: for every host, two consecutive triggerChange calls with the
\* same sorted sequence invoke onChange at most once, on the first call only.
C2_ChangeMinimal == ~FiredAgain

\* C2 amended: the same, for a host that lets the slider own its value and for
\* a controlled host that passes back every value onChange reports.
C2_ChangeMinimalOwned == (cfg.host # "controlled_fixed") => ~FiredAgain

\* two moves of one drag to the same place: onChange fired on the first only
C2_Witness ==
    /\ cfg.host = "uncontrolled"
    /\ lastOp.kind = "move"
    /\ Len(Calls) = 2
    /\ ShallowEqual(Calls[2].arg, Calls[1].arg)
    /\ Calls[1].fired
    /\ ~Calls[2].fired

BaseProps(direction, host) ==
    Props(DefaultMin, DefaultMax, DefaultStep, {}, TRUE, direction, FALSE, host)

\* one pointer-move of +15px over a 100px-wide container, the first of a drag
\* of handle 0 that started from [10, 50]
MovedBy15(direction) ==
    /\ cfg.min = 0 /\ cfg.max = 100 /\ cfg.step = 1 /\ cfg.range /\ cfg.marks = {}
    /\ cfg.direction = direction
    /\ cfg.host # "controlled_fixed"
    /\ lastOp.kind = "move"
    /\ lastOp.before = <<10, 50>>
    /\ lastOp.width = 100
    /\ Len(listeners) = 1
    /\ listeners[1].valueIndex = 1
    /\ listeners[1].cacheValues = <<10, 50>>
    /\ lastOp.x - listeners[1].startX = 15

\* C3: that move commits [25, 50] with exactly one onChange([25, 50]) in ltr,
\* and commits [0, 50] in rtl.
C3_EndToEnd ==
    /\ MovedBy15("ltr") =>
          /\ rawValues = <<25, 50>>
          /\ cacheValues = <<25, 50>>
          /\ onChangeCalls = <<[kind |-> "array", val |-> <<25, 50>>]>>
    /\ MovedBy15("rtl") =>
          /\ rawValues = <<0, 50>>
          /\ cacheValues = <<0, 50>>

C3_Witness == MovedBy15("rtl") /\ rawValues = <<0, 50>>

C3_WitnessLtr == MovedBy15("ltr") /\ rawValues = <<25, 50>>

\* the last handler was changeToCloseValue(target) on an enabled slider
Targeted ==
    /\ lastOp.kind \in {"click", "mark"}
    /\ ~cfg.disabled

TargetDist(i) == Dist(RawOf(lastOp.target[1]), lastOp.before[i])

\* the handles at minimum distance from the target
Nearest ==
    { i \in 1..Len(lastOp.before) :
        \A j \in 1..Len(lastOp.before) : RawLeq(TargetDist(i), TargetDist(j)) }

Replaced(i) == SortAsc([lastOp.before EXCEPT ![i] = lastOp.target[1]])

\* C6 as stated: the nearest handle takes the target, the lowest index on a
\* tie, and every other handle keeps its value.
C6_LowestIndexOnTie ==
    (Targeted /\ Nearest # {}) =>
        triggerCalls = <<[arg |-> Replaced(SetMin(Nearest)), fired |-> triggerCalls[1].fired]>>

SetMax(S) == CHOOSE x \in S : \A y \in S : y <= x

\* the handles no farther than max - min from the target
Within == { i \in 1..Len(lastOp.before) : RawLeq(TargetDist(i), <<cfg.max - cfg.min, 1>>) }

NearestWithin == { i \in Within : \A j \in Within : RawLeq(TargetDist(i), TargetDist(j)) }

\* C6 amended: of the handles no farther than max - min from the target, the
\* nearest takes the target, the highest index on a tie (handle 0 if there is
\* none), and every other handle keeps its value.
C6_HighestIndexOnTie ==
    Targeted =>
        triggerCalls = <<[arg |-> Replaced(IF Within = {} THEN 1 ELSE SetMax(NearestWithin)),
                          fired |-> triggerCalls[1].fired]>>

\* a click halfway between the two handles of [20, 80] sets the second
C6_Witness ==
    /\ Targeted
    /\ lastOp.before = <<20, 80>>
    /\ lastOp.target = <<50>>
    /\ Nearest = {1, 2}
    /\ triggerCalls[1].arg = <<20, 50>>

\* no element is greater than a later one (no comparison with NaN holds)
Ascending(s) ==
    \A i \in 1..Len(s), j \in 1..Len(s) :
        i < j => ~(Finite(s[i]) /\ Finite(s[j]) /\ s[i] > s[j])

\* C7: every onChange call carries two numbers in ascending order in range
\* mode, also when the working copy, indexed by handle, is not in order, and
\* a single number otherwise.
C7_OrderedShape ==
    \A i \in 1..Len(onChangeCalls) :
        IF cfg.range
        THEN /\ onChangeCalls[i].kind = "array"
             /\ Len(onChangeCalls[i].val) = 2
             /\ Ascending(onChangeCalls[i].val)
        ELSE /\ onChangeCalls[i].kind = "number"
             /\ Len(onChangeCalls[i].val) = 1

\* handle 0 was dragged past handle 1: the working copy is out of order, the
\* reported pair is not
C7_Witness ==
    /\ cfg.range
    /\ lastOp.kind = "move"
    /\ Len(listeners) = 1
    /\ listeners[1].valueIndex = 1
    /\ Finite(cacheValues[1]) /\ Finite(cacheValues[2])
    /\ cacheValues[1] > cacheValues[2]
    /\ onChangeCalls = <<[kind |-> "array", val |-> <<cacheValues[2], cacheValues[1]>>]>>

WithinRange(v) == Finite(v) /\ cfg.min <= v /\ v <= cfg.max

\* C8: every element of the authoritative value set and of the working copy
\* lies within [min, max].
C8_Bounds ==
    /\ \A i \in 1..Len(rawValues) : WithinRange(rawValues[i])
    /\ \A i \in 1..Len(cacheValues) : WithinRange(cacheValues[i])

----------------------------------------------------------------------------
(* Claims about a drag, under Spec *)

\* the closure of the onStartMove call registered last: its onMouseMove runs
\* last, so its render is the one a mousemove leaves
Session == listeners[Len(listeners)]

\* a mousemove has just run the onMouseMove of exactly one session
MovedAlone == lastOp.kind = "move" /\ Len(listeners) = 1

\* two mousemoves in a row of one ltr session, over the same container, the
\* second farther along x than the first
MovedFarther ==
    /\ cfg.direction = "ltr"
    /\ MovedAlone
    /\ lastOp'.kind = "move"
    /\ listeners' = listeners
    /\ lastOp'.width = lastOp.width
    /\ lastOp'.x > lastOp.x

\* the dragged handle did not go down (NaN takes part in no comparison)
NotLower(before, after) == ~(Finite(before) /\ Finite(after) /\ after < before)

HostDuringDrag == dragging /\ lastOp'.kind = "host"

\* what the onMouseMove of the last session writes for the mousemove op: the
\* snapshot of its pointer-down with the dragged handle replaced
FromSnapshot(op) ==
    LET i == Session.valueIndex
        event == [x |-> op.x, y |-> op.y]
        rect == [left |-> 0, top |-> 0, width |-> op.width, height |-> op.height]
    IN  [Session.cacheValues EXCEPT
            ![i] = formatValue(cfg, ScaleFrom(cfg, Session.cacheValues[i],
                                              dragPercent(cfg, Session, event, rect)))]

\* C12: a value the host passes between pointer-down and pointer-up leaves the
\* working copy as it is, the pointer-move after it still computes from the
\* snapshot of the pointer-down, and whenever no drag is in flight the working
\* copy is the normalized authoritative value set.
C12_Suppressed ==
    /\ [](~dragging => cacheValues = rawValues)
    /\ [][/\ HostDuringDrag => cacheValues' = cacheValues
          /\ (dragging /\ lastOp.kind = "host" /\ lastOp'.kind = "move")
                => cacheValues' = FromSnapshot(lastOp')]_vars

\* the host passed [80, 20] after the pointer-down on handle 0 of [10, 50]; the
\* move of +15 that followed wrote [25, 50]
C12_Witness ==
    /\ cfg = BaseProps("ltr", "controlled_fixed")
    /\ MovedAlone
    /\ value = <<80, 20>>
    /\ rawValues = <<20, 80>>
    /\ Session.valueIndex = 1
    /\ Session.cacheValues = <<10, 50>>
    /\ lastOp.x - Session.startX = 15
    /\ lastOp.width = 100
    /\ cacheValues = <<25, 50>>

\* the container of the last mousemove had no extent along the axis of the slider
ZeroExtent == IF cfg.direction = "vertical" THEN lastOp.height = 0 ELSE lastOp.width = 0

\* C13: a pointer-move over a container of zero extent along the active axis
\* leaves the authoritative value set as it was, fires no onChange, and leaves
\* no NaN in the working copy or in what onChange received.
C13_ZeroExtentGuard ==
    (lastOp.kind = "move" /\ ZeroExtent) =>
        /\ rawValues = lastOp.before
        /\ onChangeCalls = <<>>
        /\ \A i \in 1..Len(cacheValues) : Finite(cacheValues[i])
        /\ \A i \in 1..Len(onChangeCalls) : \A j \in 1..Len(onChangeCalls[i].val) :
               Finite(onChangeCalls[i].val[j])

\* the value of the dragged handle at the pointer-down of the last session
StartValue == Session.cacheValues[Session.valueIndex]

\* format(v0 + percent * (max - min))
DraggedTo(percent) == formatValue(cfg, ScaleFrom(cfg, StartValue, percent))

\* C14: over a laid-out container, a pointer-move of a vertical slider sets the
\* dragged handle from the vertical displacement over the height (so a move
\* along x only leaves it at its pointer-down value), and a pointer-move of an
\* ltr or rtl slider sets it from the horizontal displacement over the width.
C14_ActiveAxis ==
    (MovedAlone /\ lastOp.width > 0 /\ lastOp.height > 0) =>
        LET dx == lastOp.x - Session.startX
            dy == lastOp.y - Session.startY
            now == cacheValues[Session.valueIndex]
        IN  /\ cfg.direction = "ltr" => now = DraggedTo(<<dx, lastOp.width>>)
            /\ cfg.direction = "rtl" => now = DraggedTo(<<0 - dx, lastOp.width>>)
            /\ cfg.direction = "vertical" =>
                  /\ now \in {DraggedTo(<<dy, lastOp.height>>), DraggedTo(<<0 - dy, lastOp.height>>)}
                  /\ dy = 0 => now = StartValue

OnlyDragged(l) ==
    /\ Len(cacheValues) = Len(l.cacheValues)
    /\ \A j \in 1..Len(cacheValues) : j # l.valueIndex => cacheValues[j] = l.cacheValues[j]

\* C16: after every pointer-move, for every drag session in flight, the
\* working copy differs from the snapshot taken at its pointer-down at most at
\* the handle it drags, also after a crossing and after a host update.
C16_SingleHandle ==
    lastOp.kind = "move" => \A n \in 1..Len(listeners) : OnlyDragged(listeners[n])

\* the same for a session that is alone in flight
C16_SingleHandleAlone == MovedAlone => OnlyDragged(Session)

\* C17: exactly one mousemove/mouseup pair is registered while dragging and
\* none otherwise, so that at most one drag session is ever in flight, and no
\* pair is left after a pointer-up.
C17_OneSession ==
    /\ dragging => Len(listeners) = 1
    /\ ~dragging => listeners = <<>>
    /\ lastOp.kind = "up" => (listeners = <<>> /\ ~dragging)

\* the pointer of the last mousemove is where the pointer-down of the session was
BackAtStart == lastOp.x = Session.startX /\ lastOp.y = Session.startY

\* the fraction of the horizontal displacement over the width, by direction
HorizontalFraction ==
    IF cfg.direction = "rtl" THEN <<Session.startX - lastOp.x, lastOp.width>>
    ELSE <<lastOp.x - Session.startX, lastOp.width>>

\* every move of a session writes format(v0 + f * (max - min)) for the handle
\* it drags, v0 being the handle's value at the pointer-down, and format(v0)
\* when the pointer is back where it started
FromStartValue ==
    /\ cfg.direction \in {"ltr", "rtl"} =>
          cacheValues[Session.valueIndex] = DraggedTo(HorizontalFraction)
    /\ BackAtStart => cacheValues[Session.valueIndex] = formatValue(cfg, RawOf(StartValue))

\* C20: drag values do not accumulate: after every pointer-move of a session
\* on handle i, the handle is at format(v0 + f * (max - min)), with v0 its value
\* at the pointer-down and f the fractional offset of the pointer from the
\* start pointer, and at format(v0) when the pointer is back at its start.
C20_NoAccumulation == MovedAlone => FromStartValue

\* the same over a container with an extent
C20_NoAccumulationLaidOut ==
    (MovedAlone /\ lastOp.width > 0 /\ lastOp.height > 0) => FromStartValue

\* two moves in a row of one session to the same pointer position, over the
\* same container, give the same working copy
C20_SamePlaceSameCopy ==
    [][(/\ MovedAlone
        /\ lastOp'.kind = "move"
        /\ listeners' = listeners
        /\ lastOp'.x = lastOp.x /\ lastOp'.y = lastOp.y
        /\ lastOp'.width = lastOp.width /\ lastOp'.height = lastOp.height)
       => cacheValues' = cacheValues]_vars

----------------------------------------------------------------------------
(* Claims about the commit, under Spec *)

\* the last handler called triggerChange, and after its render the
\* authoritative value set is the sorted sequence of its last call
Committed == triggerCalls # <<>> => rawValues = triggerCalls[Len(triggerCalls)].arg

\* C18 as stated: for every host, controlled or not, after triggerChange and
\* the render that follows the authoritative value set is the sorted sequence
\* triggerChange was given, whether or not onChange was invoked.
C18_AlwaysCommits == Committed

\* C18 amended: the same, for a host that lets the slider own its value and
\* for a controlled host that passes back every value onChange reports.
C18_CommitsWhenOwned == (cfg.host # "controlled_fixed") => Committed

\* a slider that owns its value: a click committed a new pair, and a click
\* committed the pair that was there already without onChange
C18_Witness ==
    /\ cfg.host = "uncontrolled"
    /\ cfg.range
    /\ lastOp.kind = "click"
    /\ Len(triggerCalls) = 1
    /\ ~triggerCalls[1].fired
    /\ prevTrigger # <<>>
    /\ prevTrigger[1].fired
    /\ rawValues = triggerCalls[1].arg

----------------------------------------------------------------------------
(* A further claim about the formatter, under SpecFormat *)

\* C19: with step = null and at least one mark, format(x) of a finite x is a
\* mark, and no mark is nearer to the clamped x: no candidate is derived from
\* a step.
C19_MarksOnly ==
    (Formatted /\ cfg.step = NullStep /\ cfg.marks # {} /\ RawIsFinite(fmtIn)) =>
        /\ fmtOut \in cfg.marks
        /\ \A m \in cfg.marks : RawLeq(DistOf(fmtOut), DistOf(m))

====
